---------------------------- MODULE Spec2Model ----------------------------
(***************************************************************************)
(* FlightCal: flight lookup, date-shift estimation, timezone               *)
(* reconciliation and calendar-event generation (src/core.py), and the     *)
(* three POST flows of the web form (src/app.py).                          *)
(*                                                                         *)
(* Representation.                                                         *)
(*  - A stored timestamp "YYYYMMDD HHMM" is the record                     *)
(*    [ymd |-> 20241023, hm |-> 1430] of its two fixed-width decimal       *)
(*    fields; strptime decodes the digits, strftime encodes them.          *)
(*  - A string typed by the user (flight number, date, datetime, airport   *)
(*    code) is a sequence of one-character strings.                        *)
(*  - A datetime is [year, month, day, hour, minute]; day arithmetic goes  *)
(*    through the proleptic Gregorian ordinal, as datetime does.           *)
(***************************************************************************)
EXTENDS Integers, Sequences, FiniteSets, TLC

VARIABLES
    session,        \* flask session: the stored candidate set session["df"]
    pc,             \* position of the request being served
    flight_number,  \* get_flight: the normalised flight number
    date,           \* get_flight: the normalised date, "%Y%m%d"
    calls,          \* provider queries issued by the current get_flight call
    result,         \* outcome of the last get_flight call
    request,        \* the request being served, or the last one served
    response,       \* the HTTP response to it, once it is served
    arg,            \* input of the pure function under test
    ret             \* its result

vars == <<session, pc, flight_number, date, calls, result, request, response, arg, ret>>

webvars == <<session, pc, flight_number, date, calls, result, request, response>>

(***************************************************************************)
(* Bounds of the model.                                                    *)
(***************************************************************************)
\* number of consecutive days after each base date that dates are drawn from
NumDays == 3
\* longest provider reply (records per query) in the resolution flow
MaxReply == 2
\* longest input of the deduplicator when checked on its own
MaxDedupeLen == 3
\* longest flight number typed, when the normaliser is checked on its own
MaxFlightLen == 4
\* number of consecutive hours around each change of daylight saving time
NumHours == 3

(***************************************************************************)
(* datetime: calendar arithmetic (datetime.date, timedelta).               *)
(***************************************************************************)
IsLeap(y) == (y % 4 = 0) /\ ((y % 100 # 0) \/ (y % 400 = 0))

DaysInMonth(y, m) ==
    IF m = 2 THEN (IF IsLeap(y) THEN 29 ELSE 28)
    ELSE IF m \in {4, 6, 9, 11} THEN 30 ELSE 31

DaysBeforeYear(y) ==
    LET p == y - 1 IN p * 365 + (p \div 4) - (p \div 100) + (p \div 400)

RECURSIVE DaysBeforeMonth(_, _)
DaysBeforeMonth(y, m) ==
    IF m <= 1 THEN 0 ELSE DaysBeforeMonth(y, m - 1) + DaysInMonth(y, m - 1)

\* date.toordinal()
ToOrdinal(d) == DaysBeforeYear(d.year) + DaysBeforeMonth(d.year, d.month) + d.day

Years == 2023..2026

\* date.fromordinal()
FromOrdinal(n) ==
    LET y == CHOOSE yy \in Years :
                 DaysBeforeYear(yy) < n /\ n <= DaysBeforeYear(yy + 1)
        r == n - DaysBeforeYear(y)
        m == CHOOSE mm \in 1..12 :
                 DaysBeforeMonth(y, mm) < r
                 /\ r <= DaysBeforeMonth(y, mm) + DaysInMonth(y, mm)
    IN  [year |-> y, month |-> m, day |-> r - DaysBeforeMonth(y, m)]

\* datetime + timedelta(days=n): the date moves, the time of day stays
AddDays(dt, n) ==
    LET d == FromOrdinal(ToOrdinal(dt) + n)
    IN  [year |-> d.year, month |-> d.month, day |-> d.day,
         hour |-> dt.hour, minute |-> dt.minute]

\* datetime.combine(date, time)
Combine(d, t) ==
    [year |-> d.year, month |-> d.month, day |-> d.day,
     hour |-> t.hour, minute |-> t.minute]

\* datetime.time()
TimeOf(dt) == [hour |-> dt.hour, minute |-> dt.minute]

\* datetime.date()
DateOf(dt) == [year |-> dt.year, month |-> dt.month, day |-> dt.day]

(***************************************************************************)
(* strptime / strftime of the stored formats "%Y%m%d" and "%Y%m%d %H%M".   *)
(***************************************************************************)
\* datetime.strptime(s, "%Y%m%d").date()
StrptimeYmd(ymd) ==
    [year |-> ymd \div 10000, month |-> (ymd \div 100) % 100, day |-> ymd % 100]

\* strftime("%Y%m%d")
StrftimeYmd(d) == d.year * 10000 + d.month * 100 + d.day

ValidDate(d) ==
    /\ d.year \in 1..9999
    /\ d.month \in 1..12
    /\ d.day \in 1..DaysInMonth(d.year, d.month)

\* whether datetime.strptime(s, "%Y%m%d %H%M") succeeds (else ValueError)
StampParses(s) ==
    /\ ValidDate(StrptimeYmd(s.ymd))
    /\ s.hm \div 100 \in 0..23
    /\ s.hm % 100 \in 0..59

\* datetime.strptime(s, "%Y%m%d %H%M")
StrptimeStamp(s) ==
    Combine(StrptimeYmd(s.ymd), [hour |-> s.hm \div 100, minute |-> s.hm % 100])

\* strftime("%Y%m%d %H%M")
StrftimeStamp(dt) ==
    [ymd |-> StrftimeYmd(dt), hm |-> dt.hour * 100 + dt.minute]

(***************************************************************************)
(* move_flight_date (the Date-Shift Estimator).                            *)
(***************************************************************************)
\* a plausible slip: only the departure is shifted
MoveFlightDateDepartureOnly(flight_info, d) ==
    LET scheduled_departure == StrptimeStamp(flight_info.scheduled_departure)
        day_difference ==
            ToOrdinal(StrptimeYmd(d)) - ToOrdinal(DateOf(scheduled_departure))
    IN  [flight_info EXCEPT
            !.scheduled_departure =
                StrftimeStamp(AddDays(scheduled_departure, day_difference))]

MoveFlightDate(flight_info, d) ==
    LET scheduled_departure == StrptimeStamp(flight_info.scheduled_departure)
        scheduled_arrival == StrptimeStamp(flight_info.scheduled_arrival)
        target == StrptimeYmd(d)
        day_difference == ToOrdinal(target) - ToOrdinal(DateOf(scheduled_departure))
        new_departure ==
            IF day_difference # 0
            THEN AddDays(scheduled_departure, day_difference)
            ELSE Combine(target, TimeOf(scheduled_departure))
        new_arrival ==
            IF day_difference # 0
            THEN AddDays(scheduled_arrival, day_difference)
            ELSE Combine(target, TimeOf(scheduled_arrival))
    IN  [flight_info EXCEPT
            !.scheduled_departure = StrftimeStamp(new_departure),
            !.scheduled_arrival = StrftimeStamp(new_arrival)]

(***************************************************************************)
(* Inputs: dates and times of day.                                         *)
(***************************************************************************)
\* windows of consecutive days: over a leap day, over the end of daylight
\* saving time in America/Los_Angeles (2024-11-03), over a year's end
BaseDates ==
    { [year |-> 2024, month |-> 2, day |-> 27],
      [year |-> 2024, month |-> 10, day |-> 31],
      [year |-> 2024, month |-> 12, day |-> 30] }

WindowFrom(base) ==
    { StrftimeYmd(FromOrdinal(ToOrdinal(base) + k)) : k \in 0..NumDays }

ShiftDates == UNION { WindowFrom(b) : b \in BaseDates }

\* a record as move_flight_date reads it: the arrival is on the departure day
\* or on the next one (an overnight flight)
ShiftRecords ==
    { [scheduled_departure |-> [ymd |-> dd, hm |-> dt],
       scheduled_arrival |->
           [ymd |-> StrftimeYmd(FromOrdinal(ToOrdinal(StrptimeYmd(dd)) + k)),
            hm |-> at]] :
        dd \in ShiftDates, k \in 0..1, dt \in {1430, 2350}, at \in {615, 1645} }

(***************************************************************************)
(* The state when no request has been served.                              *)
(***************************************************************************)
NoSession == [present |-> FALSE, df |-> <<>>]

NoResult == [kind |-> "none"]

NoCalls == <<>>

NoRequest == [handler |-> "none"]

NoResponse == [kind |-> "none"]

WebInit ==
    /\ session = NoSession
    /\ pc = "idle"
    /\ flight_number = <<>>
    /\ date = 0
    /\ calls = <<>>
    /\ result = NoResult
    /\ request = NoRequest
    /\ response = NoResponse

(***************************************************************************)
(* SpecShift: move_flight_date applied to every record and target date.    *)
(***************************************************************************)
InitShift ==
    /\ WebInit
    /\ arg \in [flight_info : ShiftRecords, date : ShiftDates]
    /\ ret = [done |-> FALSE]

CallMoveFlightDate ==
    /\ ~ret.done
    /\ ret' = [done |-> TRUE, value |-> MoveFlightDate(arg.flight_info, arg.date)]
    /\ UNCHANGED <<arg, webvars>>

NextShift == CallMoveFlightDate

SpecShift == InitShift /\ [][NextShift]_vars

\* dayDelta of the call: target date minus the record's departure date, in days
DayDelta ==
    ToOrdinal(StrptimeYmd(arg.date))
        - ToOrdinal(StrptimeYmd(arg.flight_info.scheduled_departure.ymd))

\* days between the departure date and the arrival date of a record
DayOffset(r) ==
    ToOrdinal(StrptimeYmd(r.scheduled_arrival.ymd))
        - ToOrdinal(StrptimeYmd(r.scheduled_departure.ymd))

\* C2: with dayDelta = 0 the departure and the arrival keep their times of day
\* and the day offset between arrival date and departure date is preserved,
\* overnight records included.
C2_SameDayKeepsOffset ==
    (ret.done /\ DayDelta = 0) =>
        /\ ret.value.scheduled_departure.hm = arg.flight_info.scheduled_departure.hm
        /\ ret.value.scheduled_arrival.hm = arg.flight_info.scheduled_arrival.hm
        /\ DayOffset(ret.value) = DayOffset(arg.flight_info)

\* C3: with dayDelta # 0 the new departure date is the target date, both times
\* of day are unchanged and the arrival is as many days after the departure as
\* it was before the shift.
C3_ShiftIsAdditive ==
    (ret.done /\ DayDelta # 0) =>
        /\ ret.value.scheduled_departure.ymd = arg.date
        /\ ret.value.scheduled_departure.hm = arg.flight_info.scheduled_departure.hm
        /\ ret.value.scheduled_arrival.hm = arg.flight_info.scheduled_arrival.hm
        /\ DayOffset(ret.value) = DayOffset(arg.flight_info)
        /\ ToOrdinal(StrptimeYmd(ret.value.scheduled_arrival.ymd))
             = ToOrdinal(StrptimeYmd(arg.flight_info.scheduled_arrival.ymd)) + DayDelta

\* an overnight record moved across a month's end by a non-zero dayDelta
C3_Witness ==
    /\ ret.done
    /\ DayDelta # 0
    /\ DayOffset(arg.flight_info) = 1
    /\ StrptimeYmd(ret.value.scheduled_arrival.ymd).month
         # StrptimeYmd(ret.value.scheduled_departure.ymd).month

(***************************************************************************)
(* Text: a string is a sequence of one-character strings.                  *)
(***************************************************************************)
LowerChars == <<"a", "b", "c", "d", "e", "f", "g", "h", "i", "j", "k", "l", "m", "n", "o", "p", "q", "r", "s", "t", "u", "v", "w", "x", "y", "z">>

UpperChars == <<"A", "B", "C", "D", "E", "F", "G", "H", "I", "J", "K", "L", "M", "N", "O", "P", "Q", "R", "S", "T", "U", "V", "W", "X", "Y", "Z">>

DigitChars == <<"0", "1", "2", "3", "4", "5", "6", "7", "8", "9">>

Range(f) == { f[i] : i \in DOMAIN f }

UpperSet == Range(UpperChars)

LowerSet == Range(LowerChars)

DigitSet == Range(DigitChars)

IsUpper(c) == c \in UpperSet

IsLower(c) == c \in LowerSet

IsDigit(c) == c \in DigitSet

\* \s of a regular expression
IsSpace(c) == c \in {" ", "\t", "\n"}

\* str.upper(), one character
UpperChar(c) ==
    IF IsLower(c) THEN UpperChars[CHOOSE i \in 1..26 : LowerChars[i] = c] ELSE c

\* str.upper()
Upper(s) == [i \in 1..Len(s) |-> UpperChar(s[i])]

\* int() of one digit
DigitVal(c) == (CHOOSE i \in 1..10 : DigitChars[i] = c) - 1

\* s[i:j] of Python, positions counted from 1: the characters i .. j-1
Slice(s, i, j) == [k \in 1..(j - i) |-> s[i + k - 1]]

\* the end (exclusive) of the longest run of characters of the set C from i on
RECURSIVE RunEnd(_, _, _)
RunEnd(s, i, C) ==
    IF i <= Len(s) /\ s[i] \in C THEN RunEnd(s, i + 1, C) ELSE i

\* int() of a run of digits
RECURSIVE IntOf(_)
IntOf(s) ==
    IF Len(s) = 0 THEN 0
    ELSE IntOf(Slice(s, 1, Len(s))) * 10 + DigitVal(s[Len(s)])

(***************************************************************************)
(* parse_flight_number (the Identifier Normalizer).                        *)
(***************************************************************************)
IsAlnum(c) == IsUpper(c) \/ IsLower(c) \/ IsDigit(c)

\* str.lstrip("0")
LstripZeros(s) == Slice(s, RunEnd(s, 1, {"0"}), Len(s) + 1)

\* a plausible slip: only one leading zero is removed from the digit run
ParseFlightNumberStripOne(fn) ==
    LET cleaned_flight_number == Upper(SelectSeq(fn, IsAlnum))
        letters_end == RunEnd(cleaned_flight_number, 1, UpperSet)
        numbers_end == RunEnd(cleaned_flight_number, letters_end, DigitSet)
        match == letters_end > 1 /\ numbers_end > letters_end
        letters == Slice(cleaned_flight_number, 1, letters_end)
        numbers == Slice(cleaned_flight_number, letters_end, numbers_end)
    IN  IF match
        THEN letters \o (IF numbers[1] = "0" THEN Tail(numbers) ELSE numbers)
        ELSE Upper(fn)

ParseFlightNumber(fn) ==
    LET cleaned_flight_number == Upper(SelectSeq(fn, IsAlnum))
        \* re.match(r"([A-Z]+)([0-9]+)", ...): a match at the start of the
        \* string, what follows the digits is not looked at
        letters_end == RunEnd(cleaned_flight_number, 1, UpperSet)
        numbers_end == RunEnd(cleaned_flight_number, letters_end, DigitSet)
        match == letters_end > 1 /\ numbers_end > letters_end
        letters == Slice(cleaned_flight_number, 1, letters_end)
        numbers == Slice(cleaned_flight_number, letters_end, numbers_end)
    IN  IF match THEN letters \o LstripZeros(numbers) ELSE Upper(fn)

(***************************************************************************)
(* SpecNormalize: parse_flight_number applied to every short string over   *)
(* letters of both cases, digits and a separator, and again to its result. *)
(***************************************************************************)
\* the characters flight numbers are drawn from
FlightChars == {"s", "Q", "0", "7", "-"}

\* every string of at most n characters of the set S
StringsUpTo(S, n) == UNION { [1..k -> S] : k \in 0..n }

InitNormalize ==
    /\ WebInit
    /\ arg \in StringsUpTo(FlightChars, MaxFlightLen)
    /\ ret = [done |-> FALSE]

CallParseFlightNumber ==
    /\ ~ret.done
    /\ LET once == ParseFlightNumber(arg)
       IN  ret' = [done |-> TRUE, once |-> once, twice |-> ParseFlightNumber(once)]
    /\ UNCHANGED <<arg, webvars>>

NextNormalize == CallParseFlightNumber

SpecNormalize == InitNormalize /\ [][NextNormalize]_vars

\* the input with its non-alphanumerics removed, in upper case
CleanedArg == Upper(SelectSeq(arg, IsAlnum))

\* where the leading letters of the cleaned input end
ArgLettersEnd == RunEnd(CleanedArg, 1, UpperSet)

\* the cleaned input is one or more letters followed by one or more digits
ArgIsLettersDigits ==
    /\ ArgLettersEnd > 1
    /\ ArgLettersEnd <= Len(CleanedArg)
    /\ RunEnd(CleanedArg, ArgLettersEnd, DigitSet) = Len(CleanedArg) + 1

ArgLetters == Slice(CleanedArg, 1, ArgLettersEnd)

ArgDigits == Slice(CleanedArg, ArgLettersEnd, Len(CleanedArg) + 1)

\* C11: parse_flight_number is idempotent: applied to its own result it returns
\* that result, on the passthrough branch and for an all-zero digit run too.
C11_NormalizeIdempotent ==
    ret.done => ret.twice = ret.once

\* an input with a separator and an all-zero digit run that was normalised to
\* something else than itself, and an input that took the passthrough branch
\* are both among the inputs; this one is the all-zero case
C11_Witness ==
    /\ ret.done
    /\ ArgIsLettersDigits
    /\ Len(ArgDigits) >= 2
    /\ \A i \in 1..Len(ArgDigits) : ArgDigits[i] = "0"
    /\ "-" \in Range(arg)
    /\ ret.once # arg
    /\ ret.twice = ret.once

\* C12: for an input that is <letters><digits> once cleaned, the result is the
\* letters followed by the digits without leading zeros, at least one digit
\* kept: an all-zero digit run becomes the single digit "0".
C12_KeepsOneDigit ==
    (ret.done /\ ArgIsLettersDigits) =>
        ret.once = ArgLetters \o (IF LstripZeros(ArgDigits) = <<>>
                                  THEN <<"0">>
                                  ELSE LstripZeros(ArgDigits))

(***************************************************************************)
(* strptime of the dashed formats "%Y-%m-%d" and "%Y-%m-%d %H:%M", as      *)
(* _strptime compiles them: %Y is \d\d\d\d, %m is 1[0-2]|0[1-9]|[1-9],     *)
(* %d is 3[01]|[12]\d|0[1-9]|[1-9]| [1-9], %H is 2[0-3]|[0-1]\d|\d,        *)
(* %M is [0-5]\d|\d, a blank of the format is \s+, and the whole string     *)
(* must be consumed.  An operator Ends...(s, i) is the set of positions at *)
(* which a match of the field that starts at i can end.                    *)
(***************************************************************************)
Ch(s, i) == IF i \in 1..Len(s) THEN s[i] ELSE "<end>"

EndsYear(s, i) ==
    IF \A k \in i..(i + 3) : IsDigit(Ch(s, k)) THEN {i + 4} ELSE {}

EndsMonth(s, i) ==
    (IF Ch(s, i) = "1" /\ Ch(s, i + 1) \in {"0", "1", "2"} THEN {i + 2} ELSE {})
    \cup (IF Ch(s, i) = "0" /\ IsDigit(Ch(s, i + 1)) /\ Ch(s, i + 1) # "0"
          THEN {i + 2} ELSE {})
    \cup (IF IsDigit(Ch(s, i)) /\ Ch(s, i) # "0" THEN {i + 1} ELSE {})

EndsDay(s, i) ==
    (IF Ch(s, i) = "3" /\ Ch(s, i + 1) \in {"0", "1"} THEN {i + 2} ELSE {})
    \cup (IF Ch(s, i) \in {"1", "2"} /\ IsDigit(Ch(s, i + 1)) THEN {i + 2} ELSE {})
    \cup (IF Ch(s, i) = "0" /\ IsDigit(Ch(s, i + 1)) /\ Ch(s, i + 1) # "0"
          THEN {i + 2} ELSE {})
    \cup (IF IsDigit(Ch(s, i)) /\ Ch(s, i) # "0" THEN {i + 1} ELSE {})
    \cup (IF Ch(s, i) = " " /\ IsDigit(Ch(s, i + 1)) /\ Ch(s, i + 1) # "0"
          THEN {i + 2} ELSE {})

EndsHour(s, i) ==
    (IF Ch(s, i) = "2" /\ Ch(s, i + 1) \in {"0", "1", "2", "3"} THEN {i + 2} ELSE {})
    \cup (IF Ch(s, i) \in {"0", "1"} /\ IsDigit(Ch(s, i + 1)) THEN {i + 2} ELSE {})
    \cup (IF IsDigit(Ch(s, i)) THEN {i + 1} ELSE {})

EndsMinute(s, i) ==
    (IF Ch(s, i) \in {"0", "1", "2", "3", "4", "5"} /\ IsDigit(Ch(s, i + 1))
     THEN {i + 2} ELSE {})
    \cup (IF IsDigit(Ch(s, i)) THEN {i + 1} ELSE {})

\* \s+
EndsBlanks(s, i) == { j \in (i + 1)..(Len(s) + 1) : \A k \in i..(j - 1) : IsSpace(s[k]) }

\* int() of a matched field (the day may carry a leading blank)
FieldVal(s, i, j) == IntOf(SelectSeq(Slice(s, i, j), IsDigit))

\* the matches of a field that follows the literal c found at i
AfterLiteral(s, i, c, ends) == IF Ch(s, i) = c THEN ends ELSE {}

\* the parses of s under "%Y-%m-%d": the date fields and the end of the match
ParsesDate(s) ==
    UNION { UNION { { [year |-> FieldVal(s, 1, y), month |-> FieldVal(s, y + 1, m),
                       day |-> FieldVal(s, m + 1, d), end |-> d] :
                        d \in AfterLiteral(s, m, "-", EndsDay(s, m + 1)) } :
                    m \in AfterLiteral(s, y, "-", EndsMonth(s, y + 1)) } :
            y \in EndsYear(s, 1) }

\* the parses of the rest of s, from i on, under " %H:%M"
ParsesTime(s, i) ==
    UNION { UNION { { [hour |-> FieldVal(s, b, h), minute |-> FieldVal(s, h + 1, mi),
                       end |-> mi] :
                        mi \in AfterLiteral(s, h, ":", EndsMinute(s, h + 1)) } :
                    h \in EndsHour(s, b) } :
            b \in EndsBlanks(s, i) }

\* datetime.strptime(s, "%Y-%m-%d") succeeds; ValueError otherwise
DashedDateParses(s) ==
    \E p \in ParsesDate(s) : p.end = Len(s) + 1 /\ ValidDate(p)

\* datetime.strptime(s, "%Y-%m-%d"), when it succeeds
StrptimeDashedDate(s) ==
    LET p == CHOOSE q \in ParsesDate(s) : q.end = Len(s) + 1 /\ ValidDate(q)
    IN  [year |-> p.year, month |-> p.month, day |-> p.day]

\* datetime.strptime(s, "%Y-%m-%d %H:%M") succeeds; ValueError otherwise
DashedStampParses(s) ==
    \E p \in ParsesDate(s) :
        /\ ValidDate(p)
        /\ \E q \in ParsesTime(s, p.end) : q.end = Len(s) + 1

\* datetime.strptime(s, "%Y-%m-%d %H:%M"), when it succeeds
StrptimeDashedStamp(s) ==
    LET p == CHOOSE pp \in ParsesDate(s) :
                 /\ ValidDate(pp)
                 /\ \E q \in ParsesTime(s, pp.end) : q.end = Len(s) + 1
        t == CHOOSE q \in ParsesTime(s, p.end) : q.end = Len(s) + 1
    IN  [year |-> p.year, month |-> p.month, day |-> p.day,
         hour |-> t.hour, minute |-> t.minute]

(***************************************************************************)
(* parse_date.                                                             *)
(***************************************************************************)
ParseDateRaises(d) == ~DashedDateParses(d)

ParseDate(d) == StrftimeYmd(StrptimeDashedDate(d))

(***************************************************************************)
(* Provider records (pyflightdata), with the fields the code reads.        *)
(***************************************************************************)
Airport(name, iata, tz) ==
    [name |-> name, code |-> [iata |-> iata], timezone |-> [name |-> tz]]

Changi == Airport("Singapore Changi Airport", <<"S", "I", "N">>, "Asia/Singapore")

SanFrancisco ==
    Airport("San Francisco International Airport", <<"S", "F", "O">>,
            "America/Los_Angeles")

SingaporeAirlines == [kind |-> "dict", name |-> "Singapore Airlines"]

RawFlight(number, dep_date, dep_time, arr_date, arr_time, airline, origin, destination) ==
    [identification |-> [number |-> [default |-> number]],
     time |-> [scheduled |-> [departure_date |-> dep_date,
                              departure_time |-> dep_time,
                              arrival_date |-> arr_date,
                              arrival_time |-> arr_time]],
     airline |-> airline,
     airport |-> [origin |-> origin, destination |-> destination]]

SQ327 == <<"S", "Q", "3", "2", "7">>

\* a provider reply: a list of records, or a mapping (a dict keeps the order
\* in which its keys were inserted) whose values are the records
ListOf(recs) == [kind |-> "list", items |-> recs]

DictOf(recs) ==
    [kind |-> "dict",
     items |-> [i \in 1..Len(recs) |-> [key |-> i, value |-> recs[i]]]]

\* list(flight_info.values()) for a dict, the list itself otherwise
Values(flight_info) ==
    IF flight_info.kind = "dict"
    THEN [i \in 1..Len(flight_info.items) |-> flight_info.items[i].value]
    ELSE flight_info.items

(***************************************************************************)
(* pytz: zones, UTC offsets, conversion of an instant to a zone.           *)
(* An instant is a number of minutes, ordinal day * 1440 + minute of day,  *)
(* in UTC.                                                                 *)
(***************************************************************************)
KnownZones == {"UTC", "Asia/Singapore", "Asia/Bangkok", "America/Los_Angeles"}

\* pytz.timezone(name) raises UnknownTimeZoneError
TimezoneRaises(name) == name \notin KnownZones

MinutesOf(dt) == ToOrdinal(dt) * 1440 + dt.hour * 60 + dt.minute

DatetimeOf(n) ==
    Combine(FromOrdinal(n \div 1440),
            [hour |-> (n % 1440) \div 60, minute |-> n % 60])

\* daylight saving time of America/Los_Angeles in 2024, in UTC:
\* from 2024-03-10 10:00 to 2024-11-03 09:00
LosAngelesDstStart ==
    MinutesOf([year |-> 2024, month |-> 3, day |-> 10, hour |-> 10, minute |-> 0])

LosAngelesDstEnd ==
    MinutesOf([year |-> 2024, month |-> 11, day |-> 3, hour |-> 9, minute |-> 0])

\* tz.utcoffset at a UTC instant, in minutes
UtcOffset(zone, instant) ==
    CASE zone = "UTC" -> 0
      [] zone = "Asia/Singapore" -> 480
      [] zone = "Asia/Bangkok" -> 420
      [] zone = "America/Los_Angeles" ->
            IF instant >= LosAngelesDstStart /\ instant < LosAngelesDstEnd
            THEN -420 ELSE -480

\* utc_tz.localize(naive).astimezone(zone), as a naive local datetime
AsTimezone(naive_utc, zone) ==
    DatetimeOf(MinutesOf(naive_utc) + UtcOffset(zone, MinutesOf(naive_utc)))

\* tz.localize(naive), is_dst=False: the UTC instant of a civil time of the
\* zone.  A civil time that one instant has is that instant; one that two
\* instants have (the hour repeated when daylight saving time ends) is the
\* later one, in standard time; one that no instant has (the hour skipped when
\* it starts) is read with the standard offset.
Localize(naive, zone) ==
    LET local == MinutesOf(naive)
        standard == local - UtcOffset(zone, LosAngelesDstEnd)
        daylight == local - UtcOffset(zone, LosAngelesDstStart)
        possible == { u \in {standard, daylight} : u + UtcOffset(zone, u) = local }
    IN  IF possible = {daylight} THEN daylight ELSE standard

(***************************************************************************)
(* parse_flight_info (the Flight Record Mapper).                           *)
(***************************************************************************)
\* an airline name: a text, or the text "Airline (<code>)" around a code
Name(text) == [text |-> text, code |-> <<>>]

AirlineOfCode(code) == [text |-> "Airline (<code>)", code |-> code]

airline_map ==
    { <<<<"B", "A">>, "British Airways">>,
      <<<<"A", "A">>, "American Airlines">>,
      <<<<"U", "A">>, "United Airlines">>,
      <<<<"L", "H">>, "Lufthansa">>,
      <<<<"A", "F">>, "Air France">>,
      <<<<"K", "L">>, "KLM">>,
      <<<<"I", "B">>, "Iberia">>,
      <<<<"A", "S">>, "Alaska Airlines">>,
      <<<<"D", "L">>, "Delta Air Lines">>,
      <<<<"S", "W">>, "Southwest Airlines">>,
      <<<<"E", "K">>, "Emirates">>,
      <<<<"Q", "F">>, "Qantas">>,
      <<<<"S", "Q">>, "Singapore Airlines">>,
      <<<<"N", "H">>, "All Nippon Airways">>,
      <<<<"C", "X">>, "Cathay Pacific">>,
      <<<<"A", "C">>, "Air Canada">>,
      <<<<"O", "S">>, "Austrian Airlines">>,
      <<<<"A", "Z">>, "Alitalia">>,
      <<<<"B", "E">>, "Brussels Airlines">>,
      <<<<"C", "A">>, "Air China">>,
      <<<<"C", "I">>, "China Airlines">>,
      <<<<"C", "M">>, "China Eastern Airlines">>,
      <<<<"C", "Z">>, "China Southern Airlines">>,
      <<<<"E", "Y">>, "Etihad Airways">>,
      <<<<"F", "I">>, "Icelandair">>,
      <<<<"G", "A">>, "Garuda Indonesia">>,
      <<<<"G", "3">>, "GOL">>,
      <<<<"H", "A">>, "Hawaiian Airlines">>,
      <<<<"J", "L">>, "Japan Airlines">>,
      <<<<"L", "A">>, "LATAM Airlines">>,
      <<<<"L", "X">>, "Swiss International Air Lines">>,
      <<<<"M", "H">>, "Malaysia Airlines">>,
      <<<<"N", "Z">>, "Air New Zealand">>,
      <<<<"P", "R">>, "Philippine Airlines">>,
      <<<<"Q", "R">>, "Qatar Airways">>,
      <<<<"R", "J">>, "Royal Jordanian">>,
      <<<<"S", "K">>, "SAS">>,
      <<<<"S", "N">>, "Brussels Airlines">>,
      <<<<"T", "G">>, "Thai Airways">>,
      <<<<"T", "K">>, "Turkish Airlines">>,
      <<<<"T", "P">>, "TAP Air Portugal">>,
      <<<<"V", "N">>, "Vietnam Airlines">>,
      <<<<"V", "X">>, "Virgin America">>,
      <<<<"W", "N">>, "Southwest Airlines">> }

\* airline_map.get(airline_code, f"Airline ({airline_code})")
AirlineMapGet(airline_code) ==
    IF \E e \in airline_map : e[1] = airline_code
    THEN Name((CHOOSE e \in airline_map : e[1] = airline_code)[2])
    ELSE AirlineOfCode(airline_code)

AirlineName(airline, number) ==
    IF airline.kind = "dict" /\ airline.name # ""
    THEN Name(airline.name)
    ELSE \* re.match(r"([A-Z]+)", flight_number)
         LET code_end == RunEnd(number, 1, UpperSet)
         IN  IF code_end > 1
             THEN AirlineMapGet(Slice(number, 1, code_end))
             ELSE Name("Unknown Airline")

\* n counts from 0, as chosen_flight_index does
ParseFlightInfo(flight_info, n) ==
    LET raw == flight_info[n + 1]
    IN  [flight_number |-> raw.identification.number.default,
         scheduled_departure |->
             [ymd |-> raw.time.scheduled.departure_date,
              hm |-> raw.time.scheduled.departure_time],
         scheduled_arrival |->
             [ymd |-> raw.time.scheduled.arrival_date,
              hm |-> raw.time.scheduled.arrival_time],
         airline_name |-> AirlineName(raw.airline, raw.identification.number.default),
         origin_airport |-> raw.airport.origin.name,
         destination_airport |-> raw.airport.destination.name,
         origin_timezone |-> raw.airport.origin.timezone.name,
         destination_timezone |-> raw.airport.destination.timezone.name,
         origin_airport_code |-> raw.airport.origin.code.iata,
         destination_airport_code |-> raw.airport.destination.code.iata]

(***************************************************************************)
(* SpecAirline: the airline resolution of parse_flight_info, for every     *)
(* form of the provider's airline field and flight numbers of every        *)
(* carrier of the table, of carriers outside it, and without a carrier.    *)
(***************************************************************************)
\* the airline field: a dict with a name, a dict with an empty name, the
\* string 'None', or no field at all (.get gives None)
AirlineInputs ==
    { [kind |-> "dict", name |-> "Singapore Airlines"],
      [kind |-> "dict", name |-> ""],
      [kind |-> "str", name |-> "None"],
      [kind |-> "absent", name |-> ""] }

\* the carrier codes that flight numbers start with
CarrierInputs ==
    { e[1] : e \in airline_map } \cup { <<"Z", "Z">>, <<"B", "A", "W">>, <<>> }

\* the digits after the carrier code
DigitsInputs == { <<"9", "2", "9">>, <<"7">> }

InitAirline ==
    /\ WebInit
    /\ arg \in [airline : AirlineInputs, carrier : CarrierInputs, digits : DigitsInputs]
    /\ ret = [done |-> FALSE]

CallAirlineName ==
    /\ ~ret.done
    /\ ret' = [done |-> TRUE,
               value |-> ParseFlightInfo(
                             <<RawFlight(arg.carrier \o arg.digits, 20241102, 1430,
                                         20241103, 615, arg.airline, Changi,
                                         SanFrancisco)>>, 0).airline_name]
    /\ UNCHANGED <<arg, webvars>>

NextAirline == CallAirlineName

SpecAirline == InitAirline /\ [][NextAirline]_vars

\* the provider record carries a non-empty airline name
ArgHasAirlineName == arg.airline.kind = "dict" /\ arg.airline.name # ""

\* the leading letters of the flight number
ArgLetterPrefix ==
    Slice(arg.carrier \o arg.digits, 1, RunEnd(arg.carrier \o arg.digits, 1, UpperSet))

\* the name the carrier table has for a code
TableName(code) == (CHOOSE e \in airline_map : e[1] = code)[2]

TableKeys == { e[1] : e \in airline_map }

\* C14: a non-empty provider name is used; otherwise the leading letters of
\* the flight number are looked up in the carrier table: the table's name for
\* a code of the table, "Airline (<code>)" for another code, "Unknown Airline"
\* without leading letters; and a flight number of every carrier whose code is
\* a key of the table resolves to the table's name of that carrier.
C14_AirlineResolution ==
    ret.done =>
        /\ ArgHasAirlineName => ret.value = Name(arg.airline.name)
        /\ ~ArgHasAirlineName =>
              /\ ArgLetterPrefix \in TableKeys =>
                    ret.value = Name(TableName(ArgLetterPrefix))
              /\ (ArgLetterPrefix # <<>> /\ ArgLetterPrefix \notin TableKeys) =>
                    ret.value = AirlineOfCode(ArgLetterPrefix)
              /\ ArgLetterPrefix = <<>> => ret.value = Name("Unknown Airline")
              /\ arg.carrier \in TableKeys => ret.value = Name(TableName(arg.carrier))

(***************************************************************************)
(* update_df_timezones (the Timezone Reconciler), parse_nice_datetime.     *)
(* A DataFrame is the sequence of its rows.                                *)
(***************************************************************************)
UpdateDfTimezonesRaises(df) ==
    \E i \in 1..Len(df) :
        \/ TimezoneRaises(df[i].origin_timezone)
        \/ TimezoneRaises(df[i].destination_timezone)
        \/ ~StampParses(df[i].scheduled_departure)
        \/ ~StampParses(df[i].scheduled_arrival)

UpdateDfTimezones(df) ==
    [i \in 1..Len(df) |->
        [df[i] EXCEPT
            !.scheduled_departure =
                StrftimeStamp(AsTimezone(StrptimeStamp(df[i].scheduled_departure),
                                         df[i].origin_timezone)),
            !.scheduled_arrival =
                StrftimeStamp(AsTimezone(StrptimeStamp(df[i].scheduled_arrival),
                                         df[i].destination_timezone))]]

\* two decimal digits
Pad2(n) == <<DigitChars[((n \div 10) % 10) + 1], DigitChars[(n % 10) + 1]>>

\* strftime("%Y-%m-%d %H:%M")
StrftimeDashedStamp(dt) ==
    Pad2(dt.year \div 100) \o Pad2(dt.year) \o <<"-">> \o Pad2(dt.month)
        \o <<"-">> \o Pad2(dt.day) \o <<" ">> \o Pad2(dt.hour) \o <<":">>
        \o Pad2(dt.minute)

\* adds the columns nice_departure_date and nice_arrival_date
ParseNiceDatetime(df) ==
    [i \in 1..Len(df) |->
        [f \in DOMAIN df[i] \cup {"nice_departure_date", "nice_arrival_date"} |->
            CASE f = "nice_departure_date" ->
                    StrftimeDashedStamp(StrptimeStamp(df[i].scheduled_departure))
              [] f = "nice_arrival_date" ->
                    StrftimeDashedStamp(StrptimeStamp(df[i].scheduled_arrival))
              [] OTHER -> df[i][f]]]

\* df["is_guess"] = value
SetIsGuess(df, value) ==
    [i \in 1..Len(df) |->
        [f \in DOMAIN df[i] \cup {"is_guess"} |->
            IF f = "is_guess" THEN value ELSE df[i][f]]]

SeqsUpTo(S, n) == UNION { [1..k -> S] : k \in 0..n }

(***************************************************************************)
(* drop_ununique_flights (the Candidate Deduplicator).                     *)
(***************************************************************************)
\* the loop of drop_ununique_flights from position i on
RECURSIVE DropLoop(_, _, _, _)
DropLoop(flights_list, i, unique_departure_times, unique_flights) ==
    IF i > Len(flights_list) THEN unique_flights
    ELSE LET flight == flights_list[i]
             departure_time == flight.time.scheduled.departure_time
         IN  IF departure_time \notin unique_departure_times
             THEN DropLoop(flights_list, i + 1,
                           unique_departure_times \cup {departure_time},
                           Append(unique_flights, flight))
             ELSE DropLoop(flights_list, i + 1, unique_departure_times,
                           unique_flights)

\* a plausible slip: the key is the departure date and time, not the time alone
RECURSIVE DropLoopByStamp(_, _, _, _)
DropLoopByStamp(flights_list, i, seen, unique_flights) ==
    IF i > Len(flights_list) THEN unique_flights
    ELSE LET flight == flights_list[i]
             key == <<flight.time.scheduled.departure_date,
                      flight.time.scheduled.departure_time>>
         IN  IF key \notin seen
             THEN DropLoopByStamp(flights_list, i + 1, seen \cup {key},
                                  Append(unique_flights, flight))
             ELSE DropLoopByStamp(flights_list, i + 1, seen, unique_flights)

DropUnuniqueFlightsByStamp(flight_info) ==
    DropLoopByStamp(Values(flight_info), 1, {}, <<>>)

DropUnuniqueFlights(flight_info) ==
    DropLoop(Values(flight_info), 1, {}, <<>>)

(***************************************************************************)
(* SpecDedupe: drop_ununique_flights applied to every list and mapping.    *)
(***************************************************************************)
DedupeFlights ==
    { RawFlight(SQ327, dd, dt, dd, 2300, SingaporeAirlines, Changi, SanFrancisco) :
        dd \in {20241101, 20241102}, dt \in {1430, 1630} }

InitDedupe ==
    /\ WebInit
    /\ \E recs \in SeqsUpTo(DedupeFlights, MaxDedupeLen) :
           arg \in {ListOf(recs), DictOf(recs)}
    /\ ret = [done |-> FALSE]

CallDropUnuniqueFlights ==
    /\ ~ret.done
    /\ ret' = [done |-> TRUE, value |-> DropUnuniqueFlights(arg)]
    /\ UNCHANGED <<arg, webvars>>

NextDedupe == CallDropUnuniqueFlights

SpecDedupe == InitDedupe /\ [][NextDedupe]_vars

DepartureTime(flight) == flight.time.scheduled.departure_time

\* the positions of the input that hold the first record of their time of day
FirstPositions(in) ==
    { i \in 1..Len(in) :
        \A j \in 1..(i - 1) : DepartureTime(in[j]) # DepartureTime(in[i]) }

\* the k-th smallest element of a set of positions
KthOf(P, k) == CHOOSE i \in P : Cardinality({ j \in P : j < i }) = k - 1

\* C6: the result holds, for each distinct departure time of day, exactly the
\* first input record with that time of day, in order of first occurrence;
\* a mapping is taken in mapping order.
C6_KeepsFirstOfEachTime ==
    ret.done =>
        LET in == Values(arg)
            P == FirstPositions(in)
        IN  /\ Len(ret.value) = Cardinality(P)
            /\ \A k \in 1..Len(ret.value) : ret.value[k] = in[KthOf(P, k)]

\* a mapping of three records: a time of day, another one, and the first one
\* again on another date; the third record is dropped
C6_Witness ==
    /\ ret.done
    /\ arg.kind = "dict"
    /\ Len(arg.items) = 3
    /\ Len(ret.value) = 2
    /\ DepartureTime(arg.items[1].value) = DepartureTime(arg.items[3].value)
    /\ arg.items[1].value # arg.items[3].value
    /\ ret.value = <<arg.items[1].value, arg.items[2].value>>

(***************************************************************************)
(* get_flight (the Flight Resolver): the frames it builds.                 *)
(***************************************************************************)
\* a plausible slip: the single-record branch is taken for every reply
ExactFrameFirstOnly(flight_info) ==
    SetIsGuess(<<ParseFlightInfo(flight_info, 0)>>, FALSE)

\* the exact-date branch: one row per provider record, in provider order
ExactFrame(flight_info) ==
    IF Len(flight_info) > 1
    THEN SetIsGuess([i \in 1..Len(flight_info) |-> ParseFlightInfo(flight_info, i - 1)],
                    FALSE)
    ELSE SetIsGuess(<<ParseFlightInfo(flight_info, 0)>>, FALSE)

\* the history branch, up to the date shift: the deduplicated records, each
\* moved to the requested date
GuessFrame(flight_info, d) ==
    LET unique == DropUnuniqueFlights(flight_info)
        df == SetIsGuess([i \in 1..Len(unique) |-> ParseFlightInfo(unique, i - 1)],
                         TRUE)
    IN  [i \in 1..Len(df) |-> MoveFlightDate(df[i], d)]

\* df = update_df_timezones(df); df = parse_nice_datetime(df)
FinishFrame(df) == ParseNiceDatetime(UpdateDfTimezones(df))

(***************************************************************************)
(* Exceptions, outcomes of get_flight, HTTP responses.                     *)
(***************************************************************************)
Exc(type, msg) == [type |-> type, msg |-> msg]

\* raised by the provider call itself (network or parse failure)
ProviderFailure == Exc("ConnectionError", "provider call failed")

\* core.py:65
NoFlightInformation ==
    Exc("ValueError", "No flight information found for flight number")

BadDate == Exc("ValueError", "time data does not match format '%Y-%m-%d'")

UnknownTimeZone == Exc("UnknownTimeZoneError", "unknown time zone")

BadStamp == Exc("ValueError", "time data does not match format '%Y%m%d %H%M'")

IndexOutOfBounds == Exc("IndexError", "single positional indexer is out-of-bounds")

Returned(df) == [kind |-> "returned", df |-> df]

Raised(e) == [kind |-> "raised", exc |-> e]

\* render_template(template, ...): ctx is <<>> or <<the error message>>
Page(template, error) ==
    [kind |-> "page", template |-> template, error |-> error, status |-> 200,
     event |-> <<>>]

\* send_file(ics_data, ...)
File(event) ==
    [kind |-> "file", template |-> "", error |-> <<>>, status |-> 200,
     event |-> <<event>>]

\* return "No flight data found", 400
Text(body, status) ==
    [kind |-> "text", template |-> "", error |-> <<body>>, status |-> status,
     event |-> <<>>]

\* the handler raised: flask answers with its generic 500 page
Unhandled(e) ==
    [kind |-> "unhandled", template |-> "", error |-> <<e.msg>>, status |-> 500,
     event |-> <<>>]

(***************************************************************************)
(* session["df"] = df.to_json(orient="split") and pd.read_json(...).       *)
(***************************************************************************)
Columns ==
    <<"flight_number", "scheduled_departure", "scheduled_arrival", "airline_name",
      "origin_airport", "destination_airport", "origin_timezone",
      "destination_timezone", "origin_airport_code", "destination_airport_code",
      "is_guess", "nice_departure_date", "nice_arrival_date">>

ToJson(df) ==
    [columns |-> Columns,
     index |-> [i \in 1..Len(df) |-> i - 1],
     data |-> [i \in 1..Len(df) |-> [c \in 1..Len(Columns) |-> df[i][Columns[c]]]]]

ColumnOf(json, f) == CHOOSE c \in 1..Len(json.columns) : json.columns[c] = f

ReadJson(json) ==
    [i \in 1..Len(json.data) |->
        [f \in Range(json.columns) |-> json.data[i][ColumnOf(json, f)]]]

(***************************************************************************)
(* Inputs of the resolution flow.                                          *)
(***************************************************************************)
FlightInputs == { <<"S", "Q", "3", "2", "7">>, <<"s", "q", "-", "0", "3", "2", "7">> }

DateInputs ==
    { <<"2", "0", "2", "4", "-", "1", "1", "-", "0", "2">>,
      <<"2", "0", "2", "4", "-", "1", "1", "-", "0", "3">>,
      <<"i", "n", "v", "a", "l", "i", "d", "-", "d", "a", "t", "e">> }

\* the same schedule on two days, and a later departure whose local date in
\* Singapore is the day after its UTC date
ProviderFlights ==
    { RawFlight(SQ327, 20241102, 1430, 20241103, 615, SingaporeAirlines,
                Changi, SanFrancisco),
      RawFlight(SQ327, 20241101, 1430, 20241102, 615, SingaporeAirlines,
                Changi, SanFrancisco),
      RawFlight(SQ327, 20241102, 1800, 20241103, 1000, [kind |-> "str", name |-> "None"],
                Changi, SanFrancisco) }

\* what a provider query may return: a list of records, or a mapping
ProviderReplies ==
    { ListOf(recs) : recs \in SeqsUpTo(ProviderFlights, MaxReply) }
    \cup { DictOf(recs) : recs \in SeqsUpTo(ProviderFlights, MaxReply) }

(***************************************************************************)
(* create_ical: POST /create_event.  get_flight blocks in the provider     *)
(* queries; each action runs the code from one query to the next.          *)
(***************************************************************************)
\* the except branch of create_ical
CreateIcalFails(e) ==
    /\ result' = Raised(e)
    /\ response' = Page("index.html", <<e.msg>>)
    /\ pc' = "idle"
    /\ UNCHANGED session

\* get_flight returned df
CreateIcalSucceeds(df) ==
    /\ result' = Returned(df)
    /\ session' = [present |-> TRUE, df |-> ToJson(df)]
    /\ response' = Page("select_flight.html", <<>>)
    /\ pc' = "idle"

\* get_flight ends with FinishFrame(df)
GetFlightFinishes(df) ==
    IF UpdateDfTimezonesRaises(df)
    THEN CreateIcalFails(UnknownTimeZone)
    ELSE CreateIcalSucceeds(FinishFrame(df))

Query(name, raised, returned) ==
    [query |-> name, flight_number |-> flight_number, raised |-> raised,
     returned |-> returned]

CreateIcal ==
    /\ pc = "idle"
    /\ \E flight \in FlightInputs, d \in DateInputs :
        /\ request' = [handler |-> "create_ical", flight_number |-> flight,
                       flight_date |-> d]
        /\ calls' = NoCalls
        /\ flight_number' = ParseFlightNumber(flight)
        /\ IF ParseDateRaises(d)
           THEN /\ date' = 0
                /\ CreateIcalFails(BadDate)
           ELSE /\ date' = ParseDate(d)
                /\ pc' = "find_flights_with_date"
                /\ result' = NoResult
                /\ response' = NoResponse
                /\ UNCHANGED session
    /\ UNCHANGED <<arg, ret>>

\* a plausible slip: the failure of the dated query is caught and the history
\* query is tried instead
DatedQueryFailsFallsBack ==
    /\ pc = "find_flights_with_date"
    /\ calls' = Append(calls, Query("get_flight_for_date", TRUE, 0))
    /\ pc' = "find_flight_no_date"
    /\ UNCHANGED <<session, result, response>>
    /\ UNCHANGED <<flight_number, date, request, arg, ret>>

\* f.get_flight_for_date(flight_number, date) raises
DatedQueryFails ==
    /\ pc = "find_flights_with_date"
    /\ calls' = Append(calls, Query("get_flight_for_date", TRUE, 0))
    /\ CreateIcalFails(ProviderFailure)
    /\ UNCHANGED <<flight_number, date, request, arg, ret>>

\* f.get_flight_for_date(flight_number, date) returns
DatedQueryReturns ==
    /\ pc = "find_flights_with_date"
    /\ \E reply \in ProviderReplies :
        LET flight_info == IF reply.kind = "dict" THEN Values(reply) ELSE reply.items
        IN  /\ calls' = Append(calls, Query("get_flight_for_date", FALSE,
                                            Len(flight_info)))
            /\ IF Len(flight_info) = 0
               THEN /\ pc' = "find_flight_no_date"
                    /\ UNCHANGED <<session, result, response>>
               ELSE GetFlightFinishes(ExactFrame(flight_info))
    /\ UNCHANGED <<flight_number, date, request, arg, ret>>

\* f.get_history_by_flight_number(flight_number) raises: the except of
\* get_flight catches it
HistoryQueryFails ==
    /\ pc = "find_flight_no_date"
    /\ calls' = Append(calls, Query("get_history_by_flight_number", TRUE, 0))
    /\ CreateIcalFails(NoFlightInformation)
    /\ UNCHANGED <<flight_number, date, request, arg, ret>>

\* f.get_history_by_flight_number(flight_number) returns
HistoryQueryReturns ==
    /\ pc = "find_flight_no_date"
    /\ \E reply \in ProviderReplies :
        /\ calls' = Append(calls, Query("get_history_by_flight_number", FALSE,
                                        Len(reply.items)))
        /\ IF Len(reply.items) = 0
           THEN \* find_flight_no_date raises, the except of get_flight catches it
                CreateIcalFails(NoFlightInformation)
           ELSE GetFlightFinishes(GuessFrame(reply, date))
    /\ UNCHANGED <<flight_number, date, request, arg, ret>>

(***************************************************************************)
(* make_ical_event, make_ics_from_manual_data (the Calendar Event          *)
(* Builder).  An event is the record of the properties written.            *)
(***************************************************************************)
\* the VEVENT built from data, with the parsed local start and end
Event(data, departure, arrival) ==
    [summary |-> [airline_name |-> data.airline_name,
                  origin_airport_code |-> data.origin_airport_code,
                  destination_airport_code |-> data.destination_airport_code,
                  flight_number |-> data.flight_number],
     dtstart |-> [tzid |-> data.origin_timezone, local |-> departure],
     dtend |-> [tzid |-> data.destination_timezone, local |-> arrival],
     location |-> data.origin_airport,
     description |-> [airline_name |-> data.airline_name,
                      flight_number |-> data.flight_number,
                      origin_airport |-> data.origin_airport,
                      origin_airport_code |-> data.origin_airport_code],
     status |-> "CONFIRMED"]

MakeIcalEventRaises(data) ==
    \/ TimezoneRaises(data.origin_timezone)
    \/ TimezoneRaises(data.destination_timezone)
    \/ ~StampParses(data.scheduled_departure)
    \/ ~StampParses(data.scheduled_arrival)

\* the exception make_ical_event raises, in the order of its statements
MakeIcalEventException(data) ==
    IF TimezoneRaises(data.origin_timezone) \/ TimezoneRaises(data.destination_timezone)
    THEN UnknownTimeZone
    ELSE BadStamp

MakeIcalEvent(data) ==
    Event(data, StrptimeStamp(data.scheduled_departure),
          StrptimeStamp(data.scheduled_arrival))

\* make_ics_from_manual_data raises (the datetimes were validated before)
MakeIcsFromManualDataRaises(data) ==
    \/ TimezoneRaises(data.origin_timezone)
    \/ TimezoneRaises(data.destination_timezone)

MakeIcsFromManualData(data) ==
    Event(data, StrptimeDashedStamp(data.scheduled_departure),
          StrptimeDashedStamp(data.scheduled_arrival))

(***************************************************************************)
(* SpecZone: a provider record, in UTC, goes through parse_flight_info,     *)
(* update_df_timezones and make_ical_event; the instants that the event's  *)
(* DTSTART and DTEND denote are recorded.                                  *)
(***************************************************************************)
\* the hours before which the instants start: one before the end and one
\* before the start of daylight saving time in America/Los_Angeles
ZoneBases ==
    { MinutesOf([year |-> 2024, month |-> 11, day |-> 3, hour |-> 7, minute |-> 0]),
      MinutesOf([year |-> 2024, month |-> 3, day |-> 10, hour |-> 8, minute |-> 0]) }

\* the half hours of the NumHours hours from each base, as provider stamps
ZoneStamps ==
    { StrftimeStamp(DatetimeOf(b + 60 * h + 30)) : b \in ZoneBases, h \in 0..(NumHours - 1) }

ZoneRecords ==
    { RawFlight(SQ327, dep.ymd, dep.hm, arr.ymd, arr.hm, SingaporeAirlines,
                Airport("origin", <<"S", "I", "N">>, oz),
                Airport("destination", <<"S", "F", "O">>, dz)) :
        dep \in ZoneStamps, arr \in ZoneStamps, oz \in KnownZones, dz \in KnownZones }

InitZone ==
    /\ WebInit
    /\ arg \in ZoneRecords
    /\ ret = [done |-> FALSE]

CallMakeIcalEvent ==
    /\ ~ret.done
    /\ LET df == UpdateDfTimezones(<<ParseFlightInfo(<<arg>>, 0)>>)
           event == MakeIcalEvent(df[1])
       IN  ret' = [done |-> TRUE,
                   row |-> df[1],
                   dtstart |-> Localize(event.dtstart.local, event.dtstart.tzid),
                   dtend |-> Localize(event.dtend.local, event.dtend.tzid)]
    /\ UNCHANGED <<arg, webvars>>

NextZone == CallMakeIcalEvent

SpecZone == InitZone /\ [][NextZone]_vars

\* the instant the provider reported for the departure, and for the arrival
ReportedDeparture ==
    MinutesOf(StrptimeStamp([ymd |-> arg.time.scheduled.departure_date,
                             hm |-> arg.time.scheduled.departure_time]))

ReportedArrival ==
    MinutesOf(StrptimeStamp([ymd |-> arg.time.scheduled.arrival_date,
                             hm |-> arg.time.scheduled.arrival_time]))

\* C13: the instant that DTSTART (DTEND) of the event denotes is the instant
\* the provider reported for the departure (arrival), for every instant and
\* every zone, zones with daylight saving time included.
C13_RoundTripRecoversInstant ==
    ret.done =>
        /\ ret.dtstart = ReportedDeparture
        /\ ret.dtend = ReportedArrival

(***************************************************************************)
(* create_ical_from_selected: POST /create_event/<int:index>.              *)
(* A form field is <<>> (absent or empty) or <<value>>.                    *)
(***************************************************************************)
custom_fields ==
    <<"flight_number", "airline_name", "origin_airport", "origin_airport_code",
      "destination_airport", "destination_airport_code", "scheduled_departure",
      "scheduled_arrival", "origin_timezone", "destination_timezone">>

EmptyForm == [f \in Range(custom_fields) |-> <<>>]

\* the fields of the form that hold a value (if value:)
Given(form) == { f \in Range(custom_fields) : Len(form[f]) > 0 }

\* a cell that was never set
NaN(f) ==
    CASE f \in {"flight_number", "origin_airport_code", "destination_airport_code"}
            -> <<"n", "a", "n">>
      [] f = "airline_name" -> Name("nan")
      [] f \in {"scheduled_departure", "scheduled_arrival"} -> [ymd |-> 0, hm |-> 0]
      [] OTHER -> "nan"

\* for field, value in custom_fields.items(): if value: df.at[index, field] = value
\* a row label that is new makes a new last row, its other cells unset
ApplyCustomFields(df, index, form) ==
    IF index < Len(df)
    THEN [df EXCEPT ![index + 1] =
            [f \in DOMAIN df[index + 1] |->
                IF f \in Given(form) THEN form[f][1] ELSE df[index + 1][f]]]
    ELSE IF Given(form) = {} THEN df
    ELSE Append(df, [f \in Range(Columns) |->
                        IF f \in Given(form) THEN form[f][1] ELSE NaN(f)])

\* what the user may type over the selected record
EditForms ==
    { EmptyForm,
      [EmptyForm EXCEPT !.origin_airport_code = << <<"s", "i", "n">> >>],
      [EmptyForm EXCEPT !.destination_timezone = <<"Mars/Phobos">>],
      [EmptyForm EXCEPT !.scheduled_departure = <<[ymd |-> 20241345, hm |-> 1430]>>],
      [EmptyForm EXCEPT !.scheduled_departure = <<[ymd |-> 20241104, hm |-> 900]>>,
                        !.airline_name = <<Name("Scoot")>>],
      [flight_number |-> <<<<"T", "R", "1">>>>,
       airline_name |-> <<Name("Scoot")>>,
       origin_airport |-> <<"Singapore Changi Airport">>,
       origin_airport_code |-> << <<"S", "I", "N">> >>,
       destination_airport |-> <<"Suvarnabhumi Airport">>,
       destination_airport_code |-> << <<"B", "K", "K">> >>,
       scheduled_departure |-> <<[ymd |-> 20241104, hm |-> 900]>>,
       scheduled_arrival |-> <<[ymd |-> 20241104, hm |-> 1030]>>,
       origin_timezone |-> <<"Asia/Singapore">>,
       destination_timezone |-> <<"Asia/Bangkok">>] }

CreateIcalFromSelected ==
    /\ pc = "idle"
    /\ \E index \in 0..MaxReply, form \in EditForms :
        /\ request' = [handler |-> "create_ical_from_selected", index |-> index,
                       form |-> form]
        /\ IF ~session.present
           THEN response' = Text("No flight data found", 400)
           ELSE LET df == ApplyCustomFields(ReadJson(session.df), index, form)
                IN  IF index >= Len(df)
                    THEN \* df.iloc[index]
                         response' = Unhandled(IndexOutOfBounds)
                    ELSE IF MakeIcalEventRaises(df[index + 1])
                    THEN response' = Unhandled(MakeIcalEventException(df[index + 1]))
                    ELSE response' = File(MakeIcalEvent(df[index + 1]))
    /\ flight_number' = <<>>
    /\ date' = 0
    /\ calls' = NoCalls
    /\ result' = NoResult
    /\ UNCHANGED <<session, pc, arg, ret>>

(***************************************************************************)
(* create_manual_event: POST /create_manual_event.                         *)
(***************************************************************************)
\* re.match(r"^[A-Z]{3}$", code): $ also matches before a final newline
MatchesAirportCode(code) ==
    /\ Len(code) \in {3, 4}
    /\ \A i \in 1..3 : IsUpper(code[i])
    /\ Len(code) = 4 => code[4] = "\n"

\* str.replace("T", " ")
ReplaceT(s) == [i \in 1..Len(s) |-> IF s[i] = "T" THEN " " ELSE s[i]]

\* the first required field that is missing
FirstMissing(form) ==
    custom_fields[CHOOSE i \in 1..Len(custom_fields) :
                      /\ custom_fields[i] \notin Given(form)
                      /\ \A j \in 1..(i - 1) : custom_fields[j] \in Given(form)]

\* flight_data after the datetimes were normalised
Normalised(form) ==
    [f \in Range(custom_fields) |->
        IF f \in {"scheduled_departure", "scheduled_arrival"}
        THEN ReplaceT(form[f][1])
        ELSE form[f][1]]

\* the response of create_manual_event to a form
ManualResponse(form) ==
    IF Given(form) # Range(custom_fields)
    THEN Page("manual_entry.html",
              <<"Missing required field: " \o FirstMissing(form)>>)
    ELSE IF ~MatchesAirportCode(form.origin_airport_code[1])
    THEN Page("manual_entry.html", <<"Origin airport code must be 3 uppercase letters">>)
    ELSE IF ~MatchesAirportCode(form.destination_airport_code[1])
    THEN Page("manual_entry.html",
              <<"Destination airport code must be 3 uppercase letters">>)
    ELSE IF \/ ~DashedStampParses(ReplaceT(form.scheduled_departure[1]))
            \/ ~DashedStampParses(ReplaceT(form.scheduled_arrival[1]))
    THEN Page("manual_entry.html", <<"Invalid datetime format. Use: yyyy-mm-dd hh:mm">>)
    ELSE IF MakeIcsFromManualDataRaises(Normalised(form))
    THEN Page("manual_entry.html", <<UnknownTimeZone.msg>>)
    ELSE File(MakeIcsFromManualData(Normalised(form)))

ValidManualForm ==
    [flight_number |-> <<<<"U", "A", "1", "2", "3">>>>,
     airline_name |-> <<Name("United Airlines")>>,
     origin_airport |-> <<"San Francisco International Airport">>,
     origin_airport_code |-> << <<"S", "F", "O">> >>,
     destination_airport |-> <<"Los Angeles International Airport">>,
     destination_airport_code |-> << <<"L", "A", "X">> >>,
     scheduled_departure |-> <<<<"2", "0", "2", "4", "-", "1", "1", "-", "0", "2", "T", "1", "4", ":", "3", "0">>>>,
     scheduled_arrival |-> <<<<"2", "0", "2", "4", "-", "1", "1", "-", "0", "2", " ", "1", "6", ":", "4", "5">>>>,
     origin_timezone |-> <<"America/Los_Angeles">>,
     destination_timezone |-> <<"America/Los_Angeles">>]

CodeInputs ==
    { <<>>,
      << <<"S", "I", "N">> >>,
      << <<"s", "i", "n">> >>,
      << <<"S", "I">> >>,
      << <<"S", "I", "N", "X">> >>,
      << <<"S", "I", "N", "\n">> >> }

DatetimeInputs ==
    { <<>>,
      <<<<"2", "0", "2", "4", "-", "1", "1", "-", "0", "2", "T", "1", "4", ":", "3", "0">>>>,
      <<<<"2", "0", "2", "4", "-", "1", "1", "-", "0", "2", " ", "1", "4", ":", "3", "0">>>>,
      <<<<"2", "0", "2", "4", "-", "1", "1", "-", "2", " ", "7", ":", "5">>>>,
      <<<<"2", "0", "2", "4", "-", "1", "1", "-", "0", "2", "T", "T", "1", "4", ":", "3", "0">>>>,
      <<<<"2", "0", "2", "4", "-", "1", "1", "-", " ", "2", "T", "1", "4", ":", "3", "0">>>>,
      <<<<"0", "2", "/", "1", "1", "/", "2", "0", "2", "4", " ", "1", "4", ":", "3", "0">>>>,
      <<<<"2", "0", "2", "4", "-", "1", "1", "-", "0", "2">>>>,
      <<<<"2", "0", "2", "4", "-", "0", "2", "-", "3", "0", "T", "1", "0", ":", "0", "0">>>>,
      <<<<"2", "0", "2", "4", "-", "1", "1", "-", "0", "2", "T", "2", "4", ":", "0", "0">>>> }

\* the valid form with one field changed, or with both datetimes changed alike
ManualForms ==
    { [ValidManualForm EXCEPT ![f] = <<>>] : f \in Range(custom_fields) }
    \cup { [ValidManualForm EXCEPT !.origin_airport_code = c] : c \in CodeInputs }
    \cup { [ValidManualForm EXCEPT !.destination_airport_code = c] : c \in CodeInputs }
    \cup { [ValidManualForm EXCEPT !.origin_timezone = <<"Mars/Phobos">>],
           [ValidManualForm EXCEPT !.destination_timezone = <<"Asia/Singapore">>] }
    \cup { [ValidManualForm EXCEPT !.scheduled_departure = d] : d \in DatetimeInputs }
    \cup { [ValidManualForm EXCEPT !.scheduled_arrival = a] : a \in DatetimeInputs }
    \cup { [ValidManualForm EXCEPT !.scheduled_departure = d, !.scheduled_arrival = d] :
             d \in DatetimeInputs }

CreateManualEvent ==
    /\ pc = "idle"
    /\ \E form \in ManualForms :
        /\ request' = [handler |-> "create_manual_event", form |-> form]
        /\ response' = ManualResponse(form)
    /\ flight_number' = <<>>
    /\ date' = 0
    /\ calls' = NoCalls
    /\ result' = NoResult
    /\ UNCHANGED <<session, pc, arg, ret>>

(***************************************************************************)
(* Spec: the three POST flows of the web form.                             *)
(***************************************************************************)
Init ==
    /\ WebInit
    /\ arg = <<>>
    /\ ret = [done |-> FALSE]

Next ==
    \/ CreateIcal
    \/ DatedQueryFails
    \/ DatedQueryReturns
    \/ HistoryQueryFails
    \/ HistoryQueryReturns
    \/ CreateIcalFromSelected
    \/ CreateManualEvent

Spec == Init /\ [][Next]_vars

(***************************************************************************)
(* Properties of the resolution flow.                                      *)
(***************************************************************************)
\* a create_ical request has been served
Resolved == pc = "idle" /\ request.handler = "create_ical" /\ result.kind # "none"

\* the number of records query number i of the call returned
ReturnedBy(i) == IF i <= Len(calls) /\ ~calls[i].raised THEN calls[i].returned ELSE -1

\* C1: when the dated query returned n >= 1 records, get_flight returns exactly
\* n records, none a guess; when it returned none and the history query
\* returned some, get_flight returns a non-empty sequence of guesses; when both
\* returned none, get_flight fails with NotFound; a returned result is never
\* empty.
C1_Outcomes ==
    Resolved =>
        /\ ReturnedBy(1) >= 1 =>
              /\ result.kind = "returned"
              /\ Len(result.df) = ReturnedBy(1)
              /\ \A i \in 1..Len(result.df) : result.df[i].is_guess = FALSE
        /\ (ReturnedBy(1) = 0 /\ ReturnedBy(2) >= 1) =>
              /\ result.kind = "returned"
              /\ Len(result.df) >= 1
              /\ \A i \in 1..Len(result.df) : result.df[i].is_guess = TRUE
        /\ (ReturnedBy(1) = 0 /\ ReturnedBy(2) = 0) =>
              result = Raised(NoFlightInformation)
        /\ result.kind = "returned" => Len(result.df) >= 1

\* the dated query returned two records and get_flight returned both
C1_Witness ==
    /\ Resolved
    /\ ReturnedBy(1) = 2
    /\ result.kind = "returned"
    /\ Len(result.df) = 2
    /\ result.df[1] # result.df[2]

\* C15: in one get_flight call the dated query is issued first and exactly
\* once, the history query at most once and only after the dated query returned
\* zero records; no query follows a failed provider call, and no query is
\* issued at all when the date does not parse.
C15_QueryOrder ==
    /\ Len(calls) <= 2
    /\ Len(calls) >= 1 => calls[1].query = "get_flight_for_date"
    /\ Len(calls) = 2 =>
          /\ calls[2].query = "get_history_by_flight_number"
          /\ ~calls[1].raised
          /\ calls[1].returned = 0
    /\ pc = "find_flights_with_date" => Len(calls) = 0
    /\ pc = "find_flight_no_date" => Len(calls) = 1
    /\ (pc = "idle" /\ request.handler = "create_ical") =>
          /\ ParseDateRaises(request.flight_date) <=> Len(calls) = 0
          /\ (Len(calls) = 1 /\ ~calls[1].raised) => calls[1].returned > 0

\* a call that ended after the history query failed: the dated query had
\* returned no record, and nothing was asked again
C15_Witness ==
    /\ pc = "idle"
    /\ request.handler = "create_ical"
    /\ Len(calls) = 2
    /\ calls[1].returned = 0
    /\ calls[2].raised
    /\ result = Raised(NoFlightInformation)

\* C4: a failure of the provider call, in the dated or in the history query,
\* leaves get_flight as that provider error, never as the NotFound failure.
C4_ProviderErrorPropagates ==
    (Resolved /\ \E i \in 1..Len(calls) : calls[i].raised) =>
        /\ result = Raised(ProviderFailure)
        /\ result # Raised(NoFlightInformation)

\* C5: no two records returned by get_flight have the same departure time of
\* day.
C5_NoTwoSameDepartureTime ==
    (Resolved /\ result.kind = "returned") =>
        \A i, j \in 1..Len(result.df) :
            i # j => result.df[i].scheduled_departure.hm
                        # result.df[j].scheduled_departure.hm

\* C7: on the history path every returned record departs on the requested
\* date.
C7_GuessDepartsOnRequestedDate ==
    (Resolved /\ result.kind = "returned") =>
        \A i \in 1..Len(result.df) :
            result.df[i].is_guess => result.df[i].scheduled_departure.ymd = date

(***************************************************************************)
(* Properties of the records that reach event generation and of the        *)
(* responses.                                                              *)
(***************************************************************************)
\* C8: in every record an event is generated from, both airport codes match
\* ^[A-Z]{3}$.
C8_EventAirportCodesMatch ==
    response.kind = "file" =>
        /\ MatchesAirportCode(response.event[1].summary.origin_airport_code)
        /\ MatchesAirportCode(response.event[1].summary.destination_airport_code)

\* a datetime is exactly YYYY-MM-DDTHH:MM or YYYY-MM-DD HH:MM
ExactDatetimeForm(s) ==
    /\ Len(s) = 16
    /\ \A i \in {1, 2, 3, 4, 6, 7, 9, 10, 12, 13, 15, 16} : IsDigit(s[i])
    /\ s[5] = "-" /\ s[8] = "-" /\ s[14] = ":"
    /\ s[11] \in {"T", " "}

\* C9: create_manual_event builds an event only if all ten fields are given,
\* both airport codes match ^[A-Z]{3}$ and both datetimes are exactly of one of
\* the two forms; every other form is answered with an error message and no
\* event.
C9_ManualEntryValidation ==
    request.handler = "create_manual_event" =>
        LET form == request.form
            accepted ==
                /\ Given(form) = Range(custom_fields)
                /\ MatchesAirportCode(form.origin_airport_code[1])
                /\ MatchesAirportCode(form.destination_airport_code[1])
                /\ ExactDatetimeForm(form.scheduled_departure[1])
                /\ ExactDatetimeForm(form.scheduled_arrival[1])
        IN  /\ response.kind = "file" => accepted
            /\ ~accepted => /\ response.kind = "page"
                            /\ response.template = "manual_entry.html"
                            /\ response.error # <<>>

\* the form a handler's request comes from
OriginatingForm(handler) ==
    CASE handler = "create_ical" -> "index.html"
      [] handler = "create_ical_from_selected" -> "select_flight.html"
      [] handler = "create_manual_event" -> "manual_entry.html"

\* C10: a request of one of the three POST flows that fails is answered with
\* the originating form carrying an error message, never with another page or
\* an unhandled exception.
C10_FailuresOnOriginatingForm ==
    (pc = "idle" /\ response.kind # "none") =>
        \/ response.kind = "file"
        \/ /\ response.kind = "page"
           /\ response.template = "select_flight.html"
           /\ response.error = <<>>
           /\ request.handler = "create_ical"
        \/ /\ response.kind = "page"
           /\ response.template = OriginatingForm(request.handler)
           /\ response.error # <<>>
====
